---- MODULE Spec2Model ----
(***************************************************************************)
(* Model of the albabOT knowledge-base server (src/server.js): whitespace  *)
(* normalisation, paragraph chunking, corpus signature, index build with   *)
(* backup, staleness check and diversity-capped retrieval; and of the      *)
(* question/answer merge tool (tools/merge_qa_into_kb.js).                 *)
(*                                                                         *)
(* Strings are sequences of one-character tokens.  The whitespace          *)
(* characters are written SP, TAB, LF and CR.                              *)
(***************************************************************************)
EXTENDS Integers, Sequences, FiniteSets, TLC

SP == "SP"
TAB == "TAB"
LF == "LF"
CR == "CR"

\* ----------------------------------------------------------------------
\* Bounds of the model
\* ----------------------------------------------------------------------
MaxNormLen == 5
MaxTextLen == 7
MaxChunkSize == 4
MaxListing == 2
MaxChunks == 5
MaxTopKEnv == 4
MaxCapEnv == 2
MaxEdits == 1
MaxMergeRuns == 2
MaxEmbedChunks == 130
MaxRecords == 2

\* ----------------------------------------------------------------------
\* String helpers
\* ----------------------------------------------------------------------
\* All sequences over alphabet A of length at most n.
StringsUpTo(A, n) == UNION {[1..k -> A] : k \in 0..n}

\* s.slice(i0) counting from 1: the suffix that starts at position i.
DropFirst(s, k) == SubSeq(s, k + 1, Len(s))

\* The characters matched by [ \t] in the regular expressions.
Blank == {SP, TAB}

\* The characters matched by \s and removed by String.prototype.trim.
Space == {SP, TAB, LF, CR}

\* Length of the longest prefix of s whose characters are all in class
\* (member = TRUE) or all outside it (member = FALSE).
RunLen(s, class, member) ==
  LET S == {i \in 1..Len(s) : (s[i] \in class) # member}
  IN  IF S = {} THEN Len(s) ELSE (CHOOSE i \in S : \A j \in S : i <= j) - 1

BlankRun(s) == RunLen(s, Blank, TRUE)

LfRun(s) == RunLen(s, {LF}, TRUE)

SpaceRun(s) == RunLen(s, Space, TRUE)

\* Length of the longest suffix of s made of white space.
TrailingSpaceRun(s) ==
  LET S == {i \in 1..Len(s) : s[i] \notin Space}
  IN  IF S = {} THEN Len(s) ELSE Len(s) - (CHOOSE i \in S : \A j \in S : j <= i)

\* String.prototype.trim
Trim(s) ==
  LET a == DropFirst(s, SpaceRun(s))
  IN  SubSeq(a, 1, Len(a) - TrailingSpaceRun(a))

\* ----------------------------------------------------------------------
\* normalizeWhitespace
\* ----------------------------------------------------------------------
\* Each replace copies the text up to the next place the pattern can match,
\* rewrites the match if there is one, and goes on after it.

\* .replace(/\r\n/g, "\n")
RECURSIVE ReplaceCrLf(_)
ReplaceCrLf(s) ==
  LET k == RunLen(s, {CR}, FALSE) IN
  IF k = Len(s) THEN s
  ELSE IF k + 2 <= Len(s) /\ s[k + 2] = LF
       THEN SubSeq(s, 1, k) \o <<LF>> \o ReplaceCrLf(DropFirst(s, k + 2))
       ELSE SubSeq(s, 1, k + 1) \o ReplaceCrLf(DropFirst(s, k + 1))

\* .replace(/[ \t]+\n/g, "\n")
RECURSIVE StripBlanksBeforeLf(_)
StripBlanksBeforeLf(s) ==
  LET k == RunLen(s, Blank, FALSE) IN
  IF k = Len(s) THEN s
  ELSE LET b == BlankRun(DropFirst(s, k)) IN
       IF k + b < Len(s) /\ s[k + b + 1] = LF
       THEN SubSeq(s, 1, k) \o <<LF>> \o StripBlanksBeforeLf(DropFirst(s, k + b + 1))
       ELSE SubSeq(s, 1, k + b) \o StripBlanksBeforeLf(DropFirst(s, k + b))

\* .replace(/\n{3,}/g, "\n\n")
RECURSIVE CollapseLfRuns(_)
CollapseLfRuns(s) ==
  LET k == RunLen(s, {LF}, FALSE) IN
  IF k = Len(s) THEN s
  ELSE LET l == LfRun(DropFirst(s, k)) IN
       SubSeq(s, 1, k) \o (IF l >= 3 THEN <<LF, LF>> ELSE SubSeq(s, k + 1, k + l))
         \o CollapseLfRuns(DropFirst(s, k + l))

\* .replace(/[ \t]{2,}/g, " ")
RECURSIVE CollapseBlankRuns(_)
CollapseBlankRuns(s) ==
  LET k == RunLen(s, Blank, FALSE) IN
  IF k = Len(s) THEN s
  ELSE LET b == BlankRun(DropFirst(s, k)) IN
       SubSeq(s, 1, k) \o (IF b >= 2 THEN <<SP>> ELSE SubSeq(s, k + 1, k + b))
         \o CollapseBlankRuns(DropFirst(s, k + b))

\* (s || "") of an undefined argument is the empty string, written <<>>.
normalizeWhitespace(s) ==
  Trim(CollapseBlankRuns(CollapseLfRuns(StripBlanksBeforeLf(ReplaceCrLf(s)))))

\* ----------------------------------------------------------------------
\* chunkByParagraphs
\* ----------------------------------------------------------------------
\* Largest position j <= w of s that holds LF, 0 when there is none: where the
\* greedy \s* of /\n\s*\n/ backtracks to.
LastLfWithin(s, w) ==
  LET S == {j \in 1..w : s[j] = LF}
  IN  IF S = {} THEN 0 ELSE CHOOSE j \in S : \A k \in S : k <= j

\* String.prototype.split(/\n\s*\n/): piece is the text collected since the
\* last separator.
RECURSIVE SplitBlankLines(_, _)
SplitBlankLines(s, piece) ==
  LET k == RunLen(s, {LF}, FALSE) IN
  IF k = Len(s) THEN <<piece \o s>>
  ELSE LET rest == DropFirst(s, k + 1)
           j == LastLfWithin(rest, SpaceRun(rest))
       IN  IF j > 0
           THEN <<piece \o SubSeq(s, 1, k)>> \o SplitBlankLines(DropFirst(rest, j), <<>>)
           ELSE SplitBlankLines(rest, piece \o SubSeq(s, 1, k + 1))

RECURSIVE TrimAll(_)
TrimAll(ps) == IF ps = <<>> THEN <<>> ELSE <<Trim(Head(ps))>> \o TrimAll(Tail(ps))

NonEmpty(p) == p # <<>>

\* normalizeWhitespace(text).split(/\n\s*\n/).map(s => s.trim()).filter(Boolean)
Paragraphs(text) ==
  SelectSeq(TrimAll(SplitBlankLines(normalizeWhitespace(text), <<>>)), NonEmpty)

\* push: a chunk is kept when it is not empty after trimming.  The flag hard
\* records that the chunk is a slice of a hard-split paragraph.
push(chunks, t, hard) ==
  LET v == Trim(t)
  IN  IF v # <<>> THEN Append(chunks, [text |-> v, hard |-> hard]) ELSE chunks

\* p.length > chunkSizeChars * 1.8
TooLarge(p, chunkSizeChars) == 10 * Len(p) > 18 * chunkSizeChars

\* (cur.length + p.length + 2) <= chunkSizeChars
Fits(cur, p, chunkSizeChars) == Len(cur) + Len(p) + 2 <= chunkSizeChars

\* cur += (cur ? "\n\n" : "") + p
AppendParagraph(cur, p) == cur \o (IF cur # <<>> THEN <<LF, LF>> ELSE <<>>) \o p

\* cur.slice(Math.max(0, cur.length - overlapChars))
OverlapTail(cur, overlapChars) ==
  DropFirst(cur, IF Len(cur) - overlapChars > 0 THEN Len(cur) - overlapChars ELSE 0)

SeedBuffer_NoSeparator(tail, p) == tail \o p

\* cur = (tail ? tail + "\n\n" : "") + p
SeedBuffer(tail, p) == (IF tail # <<>> THEN tail \o <<LF, LF>> ELSE <<>>) \o p

\* for (let i = 0; i < p.length; i += chunkSizeChars) push(p.slice(i, i + chunkSizeChars))
HardSplit(p, i, chunkSizeChars, chunks) ==
  LET n == (Len(p) - i + chunkSizeChars - 1) \div chunkSizeChars
      from(k) == i + (k - 1) * chunkSizeChars
      slices == [k \in 1..n |->
                   [text |-> Trim(SubSeq(p, from(k) + 1,
                                         IF from(k) + chunkSizeChars < Len(p)
                                         THEN from(k) + chunkSizeChars ELSE Len(p))),
                    hard |-> TRUE]]
  IN  chunks \o SelectSeq(slices, LAMBDA c : c.text # <<>>)

\* The for loop over parts followed by the final push(cur).
RECURSIVE ChunkLoop(_, _, _, _, _)
ChunkLoop(parts, cur, chunks, chunkSizeChars, overlapChars) ==
  IF parts = <<>> THEN push(chunks, cur, FALSE)
  ELSE LET p == Head(parts) IN
       IF TooLarge(p, chunkSizeChars)
       THEN LET flushed == Trim(cur) # <<>>
            IN  ChunkLoop(Tail(parts),
                          IF flushed THEN <<>> ELSE cur,
                          HardSplit(p, 0, chunkSizeChars,
                                    IF flushed THEN push(chunks, cur, FALSE) ELSE chunks),
                          chunkSizeChars, overlapChars)
       ELSE IF Fits(cur, p, chunkSizeChars)
            THEN ChunkLoop(Tail(parts), AppendParagraph(cur, p), chunks,
                           chunkSizeChars, overlapChars)
            ELSE ChunkLoop(Tail(parts),
                           SeedBuffer(OverlapTail(cur, overlapChars), p),
                           push(chunks, cur, FALSE),
                           chunkSizeChars, overlapChars)

\* The chunks with the hard-split flag of each.
TaggedChunks(text, chunkSizeChars, overlapChars) ==
  ChunkLoop(Paragraphs(text), <<>>, <<>>, chunkSizeChars, overlapChars)

chunkByParagraphs(text, chunkSizeChars, overlapChars) ==
  LET tagged == TaggedChunks(text, chunkSizeChars, overlapChars)
  IN  [i \in 1..Len(tagged) |-> tagged[i].text]

\* ----------------------------------------------------------------------
\* docSignature
\* ----------------------------------------------------------------------
\* UTF-16 code unit of the characters that occur in file names and tokens.
Code(c) ==
  CASE c = "." -> 46
    [] c = "0" -> 48 [] c = "1" -> 49 [] c = "2" -> 50 [] c = "3" -> 51
    [] c = "4" -> 52 [] c = "5" -> 53 [] c = "6" -> 54 [] c = "7" -> 55
    [] c = "8" -> 56 [] c = "9" -> 57
    [] c = ":" -> 58
    [] c = "a" -> 97 [] c = "b" -> 98 [] c = "c" -> 99 [] c = "d" -> 100
    [] c = "h" -> 104 [] c = "j" -> 106 [] c = "m" -> 109 [] c = "s" -> 115
    [] c = "t" -> 116 [] c = "x" -> 120
    [] c = "|" -> 124

Digit(n) ==
  CASE n = 0 -> "0" [] n = 1 -> "1" [] n = 2 -> "2" [] n = 3 -> "3" [] n = 4 -> "4"
    [] n = 5 -> "5" [] n = 6 -> "6" [] n = 7 -> "7" [] n = 8 -> "8" [] n = 9 -> "9"

\* Number to string, as the template literal does for a non-negative integer.
RECURSIVE Decimal(_)
Decimal(n) == IF n < 10 THEN <<Digit(n)>> ELSE Append(Decimal(n \div 10), Digit(n % 10))

\* `${f.name}|${f.size}|${f.mtimeMs}`
Token(f) == f.name \o <<"|">> \o Decimal(f.size) \o <<"|">> \o Decimal(f.mtimeMs)

\* String order of Array.prototype.sort without a comparator: by code units,
\* a proper prefix first.
RECURSIVE StrLess(_, _)
StrLess(x, y) ==
  IF y = <<>> THEN FALSE
  ELSE IF x = <<>> THEN TRUE
  ELSE IF Code(Head(x)) # Code(Head(y)) THEN Code(Head(x)) < Code(Head(y))
  ELSE StrLess(Tail(x), Tail(y))

\* Insert t into a sorted sequence, after the elements that are not greater.
RECURSIVE InsertToken(_, _)
InsertToken(sorted, t) ==
  IF sorted = <<>> THEN <<t>>
  ELSE IF StrLess(t, Head(sorted)) THEN <<t>> \o sorted
  ELSE <<Head(sorted)>> \o InsertToken(Tail(sorted), t)

\* .sort()
RECURSIVE SortTokens(_)
SortTokens(ts) ==
  IF ts = <<>> THEN <<>>
  ELSE InsertToken(SortTokens(SubSeq(ts, 1, Len(ts) - 1)), ts[Len(ts)])

\* .join("::")
RECURSIVE Join(_)
Join(ts) ==
  IF ts = <<>> THEN <<>>
  ELSE IF Len(ts) = 1 THEN ts[1]
  ELSE ts[1] \o <<":", ":">> \o Join(Tail(ts))

docSignature(files) ==
  Join(SortTokens([i \in 1..Len(files) |-> Token(files[i])]))

\* ----------------------------------------------------------------------
\* clampInt, cosineSimilarity and retrieve
\* ----------------------------------------------------------------------
\* clampInt.  An environment value is the set of the integer it holds: {n}, or
\* {} for a value Number() turns into NaN (an undefined variable).
Unset == {}

clampInt(val, def, min, max) ==
  IF val = Unset THEN def
  ELSE LET n == CHOOSE x \in val : TRUE
           lo == IF n < max THEN n ELSE max
       IN  IF lo > min THEN lo ELSE min

RECURSIVE SumOver(_, _, _)
SumOver(a, b, i) == IF i > Len(a) THEN 0 ELSE a[i] * b[i] + SumOver(a, b, i + 1)

\* The cosine dot / (sqrt(na) * sqrt(nb)) kept exact as the pair of dot and
\* na * nb; 0 when either norm is 0.
cosineSimilarity(a, b) ==
  LET dot == SumOver(a, b, 1)
      na == SumOver(a, a, 1)
      nb == SumOver(b, b, 1)
  IN  IF na = 0 \/ nb = 0 THEN [dot |-> 0, nn |-> 1]
      ELSE [dot |-> dot, nn |-> na * nb]

\* x -> sign(x) * x^2 is increasing, so scores compare as their signed squares.
SignedSquare(sc) == IF sc.dot >= 0 THEN sc.dot * sc.dot ELSE 0 - sc.dot * sc.dot

ScoreLess(s, t) == SignedSquare(s) * t.nn < SignedSquare(t) * s.nn

CompareScores_Ascending(a, b) ==
  IF ScoreLess(a.score, b.score) THEN -1
  ELSE IF ScoreLess(b.score, a.score) THEN 1 ELSE 0

\* (a, b) => b.score - a.score, by sign
CompareScores(a, b) ==
  IF ScoreLess(b.score, a.score) THEN -1
  ELSE IF ScoreLess(a.score, b.score) THEN 1 ELSE 0

\* Array.prototype.sort is stable: x goes after every element it does not
\* have to precede.
RECURSIVE InsertScored(_, _)
InsertScored(sorted, x) ==
  IF sorted = <<>> THEN <<x>>
  ELSE IF CompareScores(x, Head(sorted)) < 0 THEN <<x>> \o sorted
  ELSE <<Head(sorted)>> \o InsertScored(Tail(sorted), x)

RECURSIVE SortScored(_)
SortScored(xs) ==
  IF xs = <<>> THEN <<>>
  ELSE InsertScored(SortScored(SubSeq(xs, 1, Len(xs) - 1)), xs[Len(xs)])

\* kb.chunks.map(c => ({doc, chunkIndex, text, score})).sort(...)
Scored(kb, qEmb) ==
  SortScored([i \in 1..Len(kb.chunks) |->
                [doc |-> kb.chunks[i].doc, chunkIndex |-> kb.chunks[i].chunkIndex,
                 text |-> kb.chunks[i].text,
                 score |-> cosineSimilarity(qEmb, kb.chunks[i].embedding)]])

CapReached_OffByOne(count, cap) == count > cap

\* if (count >= PER_DOC_CAP) continue
CapReached(count, cap) == count >= cap

\* perDoc.get(s.doc) || 0, with perDoc the set of (doc, count) entries
PerDocGet(perDoc, doc) == IF doc \in DOMAIN perDoc THEN perDoc[doc] ELSE 0

\* perDoc.set(doc, n)
PerDocSet(perDoc, doc, n) ==
  [d \in DOMAIN perDoc \cup {doc} |-> IF d = doc THEN n ELSE perDoc[d]]

\* The selection loop with its break.
RECURSIVE PickLoop(_, _, _, _, _)
PickLoop(scored, picked, perDoc, topK, cap) ==
  IF scored = <<>> THEN picked
  ELSE LET s == Head(scored)
           count == PerDocGet(perDoc, s.doc)
       IN  IF CapReached(count, cap)
           THEN PickLoop(Tail(scored), picked, perDoc, topK, cap)
           ELSE IF Len(picked) + 1 >= topK THEN Append(picked, s)
                ELSE PickLoop(Tail(scored), Append(picked, s),
                              PerDocSet(perDoc, s.doc, count + 1), topK, cap)

\* retrieve once the query embedding qEmb is known
retrieve(kb, qEmb, topK, cap) == PickLoop(Scored(kb, qEmb), <<>>, <<>>, topK, cap)

\* ----------------------------------------------------------------------
\* The server: documents directory, index file, backups, requests
\* ----------------------------------------------------------------------
\* Program constants
TARGET_CHUNKS == 150
TOP_K == 10
PER_DOC_CAP == 3
MinDocChars == 80
BATCH == 64

\* The requests the server receives, each served by one run of a handler.  A
\* request may start while an earlier one is still being served.
Procs == {1, 2}

NameA == <<"a", ".", "m", "d">>
NameB == <<"b", ".", "m", "d">>

NoFile == [kind |-> "none"]

\* undefined, as kb?.meta?.docsSignature of an index without that field
Undefined == <<"undefined">>

\* !x for a string or undefined
Falsy(x) == x = Undefined \/ x = <<>>

Rep(c, n) == [i \in 1..n |-> c]

\* Document texts: 79 characters once normalized, and 80 characters.
TextPadded == Rep("a", 40) \o Rep(SP, 41) \o Rep("b", 38)
TextLong == Rep("a", 80)
DocTexts == {TextPadded, TextLong}

DocNames == {NameA, NameB}

\* Entries of the directory that never change: a dotfile, a file with an
\* unsupported extension, a sub-directory.
NameHidden == <<".", "h", ".", "m", "d">>
NameJs == <<"c", ".", "j", "s">>
NameDir == <<"d", ".", "m", "d">>

\* readdir of DOCS_DIR with the stat of each entry, in name order.
DirEntries(dir) ==
  <<[name |-> NameHidden, isFile |-> TRUE, size |-> 1, mtimeMs |-> 1]>>
  \o (IF dir[NameA] # NoFile
      THEN <<[name |-> NameA, isFile |-> TRUE, size |-> dir[NameA].size, mtimeMs |-> dir[NameA].mtimeMs]>>
      ELSE <<>>)
  \o (IF dir[NameB] # NoFile
      THEN <<[name |-> NameB, isFile |-> TRUE, size |-> dir[NameB].size, mtimeMs |-> dir[NameB].mtimeMs]>>
      ELSE <<>>)
  \o <<[name |-> NameJs, isFile |-> TRUE, size |-> 1, mtimeMs |-> 1],
       [name |-> NameDir, isFile |-> FALSE, size |-> 1, mtimeMs |-> 1]>>

\* path.extname
ExtName(name) ==
  LET dots == {i \in 1..Len(name) : name[i] = "."}
      last == IF dots = {} THEN 0 ELSE CHOOSE i \in dots : \A j \in dots : j <= i
  IN  IF last <= 1 THEN <<>> ELSE SubSeq(name, last, Len(name))

SupportedExts == {<<".", "p", "d", "f">>, <<".", "t", "x", "t">>, <<".", "m", "d">>}

ListedEntry(e) ==
  /\ Head(e.name) # "."
  /\ e.isFile
  /\ ExtName(e.name) \in SupportedExts

RECURSIVE FilterEntries(_)
FilterEntries(es) ==
  IF es = <<>> THEN <<>>
  ELSE (IF ListedEntry(Head(es))
        THEN <<[name |-> Head(es).name, size |-> Head(es).size, mtimeMs |-> Head(es).mtimeMs]>>
        ELSE <<>>) \o FilterEntries(Tail(es))

listDocs(dir) == FilterEntries(DirEntries(dir))

\* normalizeWhitespace and chunkByParagraphs of the document texts, computed once.
CleanedTable == [t \in DocTexts |-> normalizeWhitespace(t)]

Cleaned(raw) == IF raw \in DocTexts THEN CleanedTable[raw] ELSE normalizeWhitespace(raw)

CleanTexts == {CleanedTable[t] : t \in DocTexts}

ChunkTable == [t \in CleanTexts |-> chunkByParagraphs(t, 800, 96)]

ChunksOfDoc(text, chunkSizeChars, overlapChars) ==
  IF text \in CleanTexts /\ chunkSizeChars = 800 /\ overlapChars = 96
  THEN ChunkTable[text]
  ELSE chunkByParagraphs(text, chunkSizeChars, overlapChars)

RECURSIVE TotalChars(_)
TotalChars(docs) == IF docs = <<>> THEN 0 ELSE Len(Head(docs).text) + TotalChars(Tail(docs))

\* clampInt(Math.ceil(totalChars / TARGET_CHUNKS), 1400, 800, 3200)
ChunkSizeFor(totalChars) ==
  clampInt({(totalChars + TARGET_CHUNKS - 1) \div TARGET_CHUNKS}, 1400, 800, 3200)

\* clampInt(Math.floor(chunkSizeChars * 0.12), 180, 80, 450)
OverlapFor(chunkSizeChars) == clampInt({(chunkSizeChars * 12) \div 100}, 180, 80, 450)

\* The chunks of all documents, document after document.
RECURSIVE AllChunks(_, _, _)
AllChunks(docs, chunkSizeChars, overlapChars) ==
  IF docs = <<>> THEN <<>>
  ELSE LET d == Head(docs)
           ch == ChunksOfDoc(d.text, chunkSizeChars, overlapChars)
       IN  [i \in 1..Len(ch) |->
              [id |-> d.name \o <<":", ":">> \o Decimal(i - 1), doc |-> d.name,
               chunkIndex |-> i - 1, text |-> ch[i]]]
           \o AllChunks(Tail(docs), chunkSizeChars, overlapChars)

\* The embedding provider: one fixed vector per text.
EmbeddingOf(text) ==
  <<IF \E i \in 1..Len(text) : text[i] = "a" THEN 1 ELSE 0,
    IF \E i \in 1..Len(text) : text[i] = "b" THEN 1 ELSE 0>>

\* embedBatch when the provider answers.
embedBatch(texts) == [i \in 1..Len(texts) |-> EmbeddingOf(texts[i])]

\* An index written by the question/answer tools: blocks, no meta.docsSignature.
ForeignKb ==
  [kind |-> "index",
   meta |-> [createdAt |-> 0, chunkSizeChars |-> 0, overlapChars |-> 0,
             docCount |-> 0, chunkCount |-> 0, docsSignature |-> Undefined],
   chunks |-> <<>>]

\* The file while a writeFile has truncated it and not yet written its data,
\* and after two overlapping writes left a mix of both.
Truncated == [kind |-> "truncated"]
Garbled == [kind |-> "garbled"]

\* A request slot that has not received its request.
NoRequest ==
  [pc |-> "idle", kind |-> "none", message |-> <<>>, kb |-> NoFile,
   files |-> <<>>, i |-> 0, docs |-> <<>>, chunks |-> <<>>, embeddings |-> <<>>,
   newKb |-> NoFile, createdAt |-> 0, stamp |-> 0, contexts |-> <<>>,
   status |-> 0, error |-> "none",
   seenFile |-> NoFile, seenSig |-> Undefined, checked |-> FALSE,
   buildCalls |-> 0, builds |-> 0, reloaded |-> FALSE, wrote |-> FALSE,
   failures |-> 0, listed |-> FALSE, extracted |-> FALSE, retrieved |-> FALSE,
   loaded |-> FALSE, fileCount |-> 0, docCount |-> 0,
   chunkSizeChars |-> 0, overlapChars |-> 0,
   fileAtReturn |-> NoFile, retrievedFrom |-> NoFile]

\* ----------------------------------------------------------------------
\* State
\* ----------------------------------------------------------------------
VARIABLES
  nrm,   \* normaliser run: input string, result, result of a second pass
  chk,   \* chunker run: text, chunkSizeChars, overlapChars, returned chunks
  sgn,   \* signature run: two document listings and their signatures
  ret,   \* retrieval run: index, query embedding, TOP_K, PER_DOC_CAP, result
  emb,   \* embedding loop run on its own: chunks, embeddings so far, index
  mrg,   \* question/answer merge tool: its index file and its last run
  docsDir,        \* DOCS_DIR: the file of each document name, or NoFile
  kbFile,         \* content of KB_PATH
  backups,        \* the backup files: stamp -> content
  req,            \* the request each handler instance is serving
  edits,          \* number of changes made to DOCS_DIR
  everPersisted   \* every complete index KB_PATH has held

pureVars == <<nrm, chk, sgn, ret, emb, mrg>>

srvVars == <<docsDir, kbFile, backups, req, edits, everPersisted>>

vars == <<nrm, chk, sgn, ret, emb, mrg, docsDir, kbFile, backups, req, edits, everPersisted>>

\* The server state while one of the functions is run on its own.
ServerOff ==
  /\ docsDir = [n \in DocNames |-> NoFile]
  /\ kbFile = NoFile
  /\ backups = <<>>
  /\ req = [r \in Procs |-> NoRequest]
  /\ edits = 0
  /\ everPersisted = {}

Idle == [phase |-> "idle"]

\* ----------------------------------------------------------------------
\* Specification of the normaliser
\* ----------------------------------------------------------------------
NormChars == {"a", SP, TAB, LF, CR}

InitNorm ==
  /\ chk = Idle /\ sgn = Idle /\ ret = Idle /\ emb = Idle /\ mrg = Idle /\ ServerOff
  /\ nrm \in {[phase |-> "input", s |-> s] : s \in StringsUpTo(NormChars, MaxNormLen)}

Normalize ==
  /\ nrm.phase = "input"
  /\ UNCHANGED <<chk, sgn, ret, emb, mrg, srvVars>>
  /\ nrm' = [phase |-> "done", s |-> nrm.s,
             once |-> normalizeWhitespace(nrm.s),
             twice |-> normalizeWhitespace(normalizeWhitespace(nrm.s))]

NextNorm == Normalize

SpecNorm == InitNorm /\ [][NextNorm]_vars

\* C10: normalize is idempotent, normalize(normalize(s)) = normalize(s) for
\* every string s, and the empty (or undefined) input yields the empty string.
C10_NormalizeIdempotent ==
  nrm.phase = "done" =>
    /\ nrm.twice = nrm.once
    /\ (nrm.s = <<>> => nrm.once = <<>>)

\* ----------------------------------------------------------------------
\* Specification of the chunker
\* ----------------------------------------------------------------------
ChunkChars == {"a", "b", SP, LF}

\* chunkSizeChars > overlapChars > 0, with the smallest and the largest overlap
ChunkParams ==
  {pr \in (2..MaxChunkSize) \X (1..MaxChunkSize) : pr[2] \in {1, pr[1] - 1}}

InitChunk ==
  /\ nrm = Idle /\ sgn = Idle /\ ret = Idle /\ emb = Idle /\ mrg = Idle /\ ServerOff
  /\ chk \in {[phase |-> "input", text |-> t, chunkSizeChars |-> pr[1], overlapChars |-> pr[2]] :
                t \in StringsUpTo(ChunkChars, MaxTextLen), pr \in ChunkParams}

Chunk ==
  /\ chk.phase = "input"
  /\ UNCHANGED <<nrm, sgn, ret, emb, mrg, srvVars>>
  /\ chk' = [phase |-> "done", text |-> chk.text,
             chunkSizeChars |-> chk.chunkSizeChars, overlapChars |-> chk.overlapChars,
             parts |-> Paragraphs(chk.text),
             tagged |-> TaggedChunks(chk.text, chk.chunkSizeChars, chk.overlapChars),
             chunks |-> chunkByParagraphs(chk.text, chk.chunkSizeChars, chk.overlapChars)]

NextChunk == Chunk

SpecChunk == InitChunk /\ [][NextChunk]_vars

\* C7: every returned chunk that is not a slice of a hard-split paragraph has
\* length at most chunkSizeChars * 1.8, chunks that start with the overlap tail
\* of the previously flushed buffer included.
C7_ChunkSizeBound ==
  chk.phase = "done" =>
    \A i \in 1..Len(chk.tagged) :
      ~chk.tagged[i].hard => 10 * Len(chk.tagged[i].text) <= 18 * chk.chunkSizeChars

\* Split a chunk at each paragraph separator LF LF.
RECURSIVE SplitAtSeparator(_, _)
SplitAtSeparator(s, piece) ==
  IF s = <<>> THEN <<piece>>
  ELSE IF Len(s) >= 2 /\ s[1] = LF /\ s[2] = LF
       THEN <<piece>> \o SplitAtSeparator(DropFirst(s, 2), <<>>)
       ELSE SplitAtSeparator(Tail(s), Append(piece, Head(s)))

\* The last n characters of a chunk, as they show at the start of the next one.
OverlapOf(prev, n) ==
  Trim(SubSeq(prev, (IF Len(prev) > n THEN Len(prev) - n ELSE 0) + 1, Len(prev)))

\* The paragraphs of chunk k once the overlap copied from chunk k-1 and the
\* separator after it are removed.
OwnParagraphs(chunks, k, n) ==
  IF k = 1 THEN SplitAtSeparator(chunks[1], <<>>)
  ELSE SplitAtSeparator(DropFirst(chunks[k], Len(OverlapOf(chunks[k - 1], n)) + 2), <<>>)

RECURSIVE Reconstruct(_, _, _)
Reconstruct(chunks, k, n) ==
  IF k > Len(chunks) THEN <<>>
  ELSE OwnParagraphs(chunks, k, n) \o Reconstruct(chunks, k + 1, n)

UnderThreshold(parts, chunkSizeChars) ==
  \A i \in 1..Len(parts) : ~TooLarge(parts[i], chunkSizeChars)

\* C8: when no paragraph is over the hard-split threshold, the chunks minus the
\* overlap copied from the previous chunk are exactly the normalized paragraphs,
\* whole, in order, none omitted or duplicated; empty input gives no chunk and a
\* single paragraph shorter than chunkSizeChars gives exactly one chunk.
C8_ChunkCoverage ==
  chk.phase = "done" =>
    /\ UnderThreshold(chk.parts, chk.chunkSizeChars) =>
         Reconstruct(chk.chunks, 1, chk.overlapChars) = chk.parts
    /\ (chk.text = <<>> => chk.chunks = <<>>)
    /\ (Len(chk.parts) = 1 /\ Len(chk.parts[1]) < chk.chunkSizeChars =>
         Len(chk.chunks) = 1)

\* A document of three paragraphs under the threshold was cut into at least
\* two chunks, the second starting with an overlap.
C8_Witness ==
  /\ chk.phase = "done"
  /\ Len(chk.parts) >= 3
  /\ UnderThreshold(chk.parts, chk.chunkSizeChars)
  /\ Len(chk.chunks) >= 2
  /\ \E i \in 1..Len(chk.tagged) : Len(chk.tagged[i].text) > chk.chunkSizeChars

\* ----------------------------------------------------------------------
\* Specification of the corpus signature
\* ----------------------------------------------------------------------

\* A file name that holds the characters of the token and join separators.
NameAB == NameA \o <<"|", "1", "|", "1", ":", ":">> \o NameB

SigNames == {NameA, NameB, NameAB}

SigStats == {1, 2}

SigFiles == [name : SigNames, size : SigStats, mtimeMs : SigStats]

\* The listings of a directory: no name twice.
Listings ==
  {l \in UNION {[1..k -> SigFiles] : k \in 0..MaxListing} :
     \A i, j \in 1..Len(l) : l[i].name = l[j].name => i = j}

InitSig ==
  /\ nrm = Idle /\ chk = Idle /\ ret = Idle /\ emb = Idle /\ mrg = Idle /\ ServerOff
  /\ sgn \in {[phase |-> "input", la |-> la, lb |-> lb] : la \in Listings, lb \in Listings}

Sign ==
  /\ sgn.phase = "input"
  /\ UNCHANGED <<nrm, chk, ret, emb, mrg, srvVars>>
  /\ sgn' = [phase |-> "done", la |-> sgn.la, lb |-> sgn.lb,
             sa |-> docSignature(sgn.la), sb |-> docSignature(sgn.lb)]

NextSig == Sign

SpecSig == InitSig /\ [][NextSig]_vars

Triples(l) == {l[i] : i \in 1..Len(l)}

\* C9: two listings have the same signature exactly when they hold the same
\* set of (name, size, mtime) triples, whatever the listing order and whatever
\* characters the names contain.
C9_SignatureExact ==
  sgn.phase = "done" =>
    ((sgn.sa = sgn.sb) <=> (Triples(sgn.la) = Triples(sgn.lb)))

\* ----------------------------------------------------------------------
\* Specification of retrieve
\* ----------------------------------------------------------------------
Vecs == {<<1, 0>>, <<1, 1>>, <<0, 0>>}

QueryVecs == {<<1, 0>>, <<-1, 1>>}

\* An index as buildKB lays it out: the k chunks of the first document, then
\* the chunks of the second, each with its position in its document.
IndexOf(n, k, embs) ==
  [chunks |->
     [i \in 1..n |->
        LET doc == IF i <= k THEN NameA ELSE NameB
            chunkIndex == IF i <= k THEN i - 1 ELSE i - k - 1
        IN  [id |-> doc \o <<":", ":">> \o Decimal(chunkIndex), doc |-> doc,
             chunkIndex |-> chunkIndex, text |-> <<"t">>, embedding |-> embs[i]]]]

Indexes ==
  UNION {{IndexOf(n, k, embs) : k \in 0..n, embs \in [1..n -> Vecs]} : n \in 0..MaxChunks}

\* TOP_K and PER_DOC_CAP as the start-up code derives them from the environment.
TopKValues == {clampInt(v, 10, 3, 20) : v \in {Unset} \cup {{n} : n \in 0..MaxTopKEnv}}

PerDocCapValues == {clampInt(v, 3, 1, 10) : v \in {Unset} \cup {{n} : n \in 0..MaxCapEnv}}

InitRetrieve ==
  /\ nrm = Idle /\ chk = Idle /\ sgn = Idle /\ emb = Idle /\ mrg = Idle /\ ServerOff
  /\ ret \in {[phase |-> "input", kb |-> kb, qEmb |-> q, TOP_K |-> t, PER_DOC_CAP |-> c] :
                kb \in Indexes, q \in QueryVecs, t \in TopKValues, c \in PerDocCapValues}

Retrieve ==
  /\ ret.phase = "input"
  /\ UNCHANGED <<nrm, chk, sgn, emb, mrg, srvVars>>
  /\ ret' = [phase |-> "done", kb |-> ret.kb, qEmb |-> ret.qEmb,
             TOP_K |-> ret.TOP_K, PER_DOC_CAP |-> ret.PER_DOC_CAP,
             result |-> retrieve(ret.kb, ret.qEmb, ret.TOP_K, ret.PER_DOC_CAP)]

NextRetrieve == Retrieve

SpecRetrieve == InitRetrieve /\ [][NextRetrieve]_vars

\* Number of entries of a sequence of chunks or results that belong to doc.
CountOfDoc(xs, doc) == Cardinality({i \in 1..Len(xs) : xs[i].doc = doc})

DocsOf(xs) == {xs[i].doc : i \in 1..Len(xs)}

\* C1: the sequence returned by retrieve holds at most PER_DOC_CAP entries of
\* any one document.
C1_PerDocCap ==
  ret.phase = "done" =>
    \A d \in DocsOf(ret.kb.chunks) : CountOfDoc(ret.result, d) <= ret.PER_DOC_CAP

\* The scores of the chunks of the index of the run, by position.
Scores == [i \in 1..Len(ret.kb.chunks) |-> cosineSimilarity(ret.qEmb, ret.kb.chunks[i].embedding)]

ScoreOf(i) == Scores[i]

\* Chunk i ranks before chunk j under the scores sc: higher score, or equal
\* score and earlier in the index.
Before(sc, i, j) ==
  \/ ScoreLess(sc[j], sc[i])
  \/ ~ScoreLess(sc[i], sc[j]) /\ i < j

RanksBefore(i, j) == Before(Scores, i, j)

\* One document's chunks take more than PER_DOC_CAP of the top ranks and the
\* result holds exactly PER_DOC_CAP of them.
C1_Witness ==
  /\ ret.phase = "done"
  /\ \E d \in DocsOf(ret.kb.chunks) :
       /\ CountOfDoc(ret.result, d) = ret.PER_DOC_CAP
       /\ \E T \in SUBSET (1..Len(ret.kb.chunks)) :
            /\ Cardinality(T) = ret.PER_DOC_CAP + 1
            /\ \A i \in T : ret.kb.chunks[i].doc = d
            /\ \A i \in T : \A j \in 1..Len(ret.kb.chunks) :
                 ret.kb.chunks[j].doc # d => RanksBefore(i, j)

MinOf(a, b) == IF a < b THEN a ELSE b

\* The reference selection.  A chunk is eligible when fewer than PER_DOC_CAP
\* chunks of its document rank before it; the result is the eligible chunks by
\* rank, the first TOP_K of them.
Reference ==
  LET chunks == ret.kb.chunks
      n == Len(chunks)
      sc == Scores
      eligible == {i \in 1..n :
                     Cardinality({j \in 1..n : chunks[j].doc = chunks[i].doc /\ Before(sc, j, i)})
                       < ret.PER_DOC_CAP}
      place == [i \in eligible |-> Cardinality({j \in eligible : Before(sc, j, i)}) + 1]
  IN  [r \in 1..MinOf(ret.TOP_K, Cardinality(eligible)) |->
         LET i == CHOOSE i \in eligible : place[i] = r
         IN  [doc |-> chunks[i].doc, chunkIndex |-> chunks[i].chunkIndex,
              text |-> chunks[i].text, score |-> sc[i]]]

RECURSIVE SumCapped(_, _, _)
SumCapped(docs, xs, cap) ==
  IF docs = {} THEN 0
  ELSE LET d == CHOOSE d \in docs : TRUE
       IN  MinOf(cap, CountOfDoc(xs, d)) + SumCapped(docs \ {d}, xs, cap)

\* C2: retrieve returns the greedy reference selection (descending score,
\* equal scores in chunk order, chunks over the cap dropped, first TOP_K kept);
\* the result is in non-increasing score order and its length is
\* min(TOP_K, sum over documents of min(PER_DOC_CAP, chunks of the document)).
C2_GreedyReference ==
  ret.phase = "done" =>
    /\ ret.result = Reference
    /\ \A i \in 1..(Len(ret.result) - 1) :
         ~ScoreLess(ret.result[i].score, ret.result[i + 1].score)
    /\ Len(ret.result) =
         MinOf(ret.TOP_K,
               SumCapped(DocsOf(ret.kb.chunks), ret.kb.chunks, ret.PER_DOC_CAP))

\* Three chunks of one document all score above the two chunks of the other,
\* TOP_K = 4 and PER_DOC_CAP = 2: the result holds two chunks of each.
C2_Witness ==
  /\ ret.phase = "done"
  /\ ret.TOP_K = 4 /\ ret.PER_DOC_CAP = 2
  /\ CountOfDoc(ret.kb.chunks, NameA) = 3 /\ CountOfDoc(ret.kb.chunks, NameB) = 2
  /\ \A i, j \in 1..Len(ret.kb.chunks) :
       ret.kb.chunks[i].doc = NameA /\ ret.kb.chunks[j].doc = NameB =>
         ScoreLess(ScoreOf(j), ScoreOf(i))
  /\ CountOfDoc(ret.result, NameA) = 2 /\ CountOfDoc(ret.result, NameB) = 2
  /\ Len(ret.result) = 4

\* ----------------------------------------------------------------------
\* Specification of the server
\* ----------------------------------------------------------------------
Messages == {<<SP>>, <<"a">>}

\* The response is sent and the locals of the handler are gone.
Respond(rq, status, err) ==
  [rq EXCEPT !.pc = "done", !.status = status, !.error = err,
             !.kb = NoFile, !.files = <<>>, !.i = 0, !.docs = <<>>, !.chunks = <<>>,
             !.embeddings = <<>>, !.newKb = NoFile, !.contexts = <<>>]

\* catch (e) { res.status(500)... } of both handlers
Throw(rq, err) == Respond(rq, 500, err)

\* JSON.parse(fs.readFileSync(KB_PATH)) succeeds on a completely written index.
Parses(file) == file.kind = "index"

\* if (!kb?.meta?.docsSignature) return true
kbLacksSignature(kb) == Falsy(kb.meta.docsSignature)

\* return sig !== kb.meta.docsSignature
SignatureDiffers(sig, kb) == sig # kb.meta.docsSignature

\* A request calls buildKB.
CallBuild(rq) == [rq EXCEPT !.pc = "b_list", !.buildCalls = @ + 1]

\* Times.  Every reading of the clock gives a time of its own: the mtime of
\* the k-th change of the directory is TimeOfEdit(k) and the times request r
\* reads with new Date() are TimeOfRequest(r).  Start-up files have mtime 1.
TimeOfEdit(k) == 1 + k

TimeOfRequest(r) == 100 + r

\* A document file as it is at start-up.
FileOf(t) == [size |-> Len(t), mtimeMs |-> 1, text |-> t]

\* DOCS_DIR at start-up: one long document; two documents too short once
\* normalized; two long documents.
InitialDirs ==
  {[n \in DocNames |-> IF n = NameA THEN FileOf(TextLong) ELSE NoFile],
   [n \in DocNames |-> FileOf(TextPadded)],
   [n \in DocNames |-> FileOf(TextLong)]}

\* The documents that are written or removed while the server runs.
EditedNames == {NameA}

\* The text a document is given when it is written while the server runs.
EditedTexts == {TextLong}

InitServer ==
  /\ nrm = Idle /\ chk = Idle /\ sgn = Idle /\ ret = Idle
  /\ emb = Idle /\ mrg = Idle
  /\ docsDir \in InitialDirs
  /\ kbFile \in {NoFile, ForeignKb}
  /\ backups = <<>>
  /\ req = [r \in Procs |-> NoRequest]
  /\ edits = 0
  /\ everPersisted = {kbFile} \ {NoFile}

\* ---- the documents directory changes under the server ----
PutDoc(n, t) ==
  /\ edits < MaxEdits
  /\ docsDir' = [docsDir EXCEPT ![n] = [size |-> Len(t), mtimeMs |-> TimeOfEdit(edits + 1), text |-> t]]
  /\ edits' = edits + 1
  /\ UNCHANGED <<pureVars, kbFile, backups, req, everPersisted>>

RemoveDoc(n) ==
  /\ edits < MaxEdits
  /\ docsDir[n] # NoFile
  /\ docsDir' = [docsDir EXCEPT ![n] = NoFile]
  /\ edits' = edits + 1
  /\ UNCHANGED <<pureVars, kbFile, backups, req, everPersisted>>

\* ---- POST /api/build ----
StartBuild(r) ==
  /\ req[r].pc = "idle"
  /\ \A q \in Procs : q < r => req[q].pc # "idle"
  /\ req' = [req EXCEPT ![r] = CallBuild([NoRequest EXCEPT !.kind = "build"])]
  /\ UNCHANGED <<pureVars, docsDir, kbFile, backups, edits, everPersisted>>

\* ---- POST /api/chat up to the first await ----
StartChat(r, m) ==
  /\ req[r].pc = "idle"
  /\ \A q \in Procs : q < r => req[q].pc # "idle"
  /\ LET rq == [NoRequest EXCEPT !.kind = "chat", !.message = Trim(m),
                                 !.seenFile = kbFile,
                                 !.seenSig = docSignature(listDocs(docsDir))]
     IN  req' = [req EXCEPT ![r] =
           IF rq.message = <<>> THEN Respond(rq, 400, "message")
           ELSE IF kbFile = NoFile THEN CallBuild([rq EXCEPT !.loaded = TRUE])
           ELSE IF ~Parses(kbFile) THEN Throw(rq, "parse")
           ELSE IF kbLacksSignature(kbFile)
                THEN CallBuild([rq EXCEPT !.kb = kbFile, !.loaded = TRUE])
           ELSE [rq EXCEPT !.kb = kbFile, !.loaded = TRUE, !.pc = "c_stale"]]
  /\ UNCHANGED <<pureVars, docsDir, kbFile, backups, edits, everPersisted>>

\* kbIsStale after its await listDocs()
ChatStale(r) ==
  /\ req[r].pc = "c_stale"
  /\ LET rq == req[r]
         sig == docSignature(listDocs(docsDir))
         seen == [rq EXCEPT !.seenSig = sig, !.checked = TRUE]
     IN  req' = [req EXCEPT ![r] =
           IF SignatureDiffers(sig, rq.kb) THEN CallBuild(seen)
           ELSE [seen EXCEPT !.pc = "c_retrieve"]]
  /\ UNCHANGED <<pureVars, docsDir, kbFile, backups, edits, everPersisted>>

\* ---- buildKB ----
BuildList(r) ==
  /\ req[r].pc = "b_list"
  /\ LET rq == req[r]
         files == listDocs(docsDir)
     IN  req' = [req EXCEPT ![r] =
           IF files = <<>> THEN Throw([rq EXCEPT !.listed = TRUE, !.files = files], "empty")
           ELSE [rq EXCEPT !.listed = TRUE, !.files = files, !.fileCount = Len(files),
                           !.i = 1, !.docs = <<>>,
                           !.pc = "b_extract"]]
  /\ UNCHANGED <<pureVars, docsDir, kbFile, backups, edits, everPersisted>>

\* The end of the embedding loop: createdAt is read, then listDocs is awaited.
ToSign(rq, now) == [rq EXCEPT !.pc = "b_sign", !.createdAt = now]

\* After the last document: sizes, chunks, and the embedding loop if any chunk.
FinishExtract(rq, docs, now) ==
  LET cs == ChunkSizeFor(TotalChars(docs))
      ov == OverlapFor(cs)
      chunks == AllChunks(docs, cs, ov)
      done == [rq EXCEPT !.docs = docs, !.extracted = TRUE, !.docCount = Len(docs),
                         !.chunkSizeChars = cs,
                         !.overlapChars = ov, !.chunks = chunks, !.embeddings = <<>>]
  IN  IF chunks = <<>> THEN ToSign(done, now) ELSE [done EXCEPT !.pc = "b_embed"]

\* The rest of the loop body once the text of files[i] is known.
KeepDoc(rq, raw, now) ==
  LET cleaned == Cleaned(raw)
      docs == IF Len(cleaned) < MinDocChars THEN rq.docs
              ELSE Append(rq.docs, [name |-> rq.files[rq.i].name, text |-> cleaned])
  IN  IF rq.i = Len(rq.files) THEN FinishExtract(rq, docs, now)
      ELSE [rq EXCEPT !.docs = docs, !.i = rq.i + 1]

AfterExtract_SkipUnreadable(rq, ok, raw, now) ==
  IF ok THEN KeepDoc(rq, raw, now)
  ELSE KeepDoc([rq EXCEPT !.failures = @ + 1], <<>>, now)

\* One pass of the loop over files: readDocText throws or gives the text.
AfterExtract(rq, ok, raw, now) ==
  IF ok THEN KeepDoc(rq, raw, now)
  ELSE Throw([rq EXCEPT !.failures = @ + 1], "extract")

BuildExtract(r) ==
  /\ req[r].pc = "b_extract"
  /\ \E readable \in BOOLEAN :
       LET rq == req[r]
           file == docsDir[rq.files[rq.i].name]
           ok == readable /\ file # NoFile
           raw == IF file # NoFile THEN file.text ELSE <<>>
       IN  req' = [req EXCEPT ![r] = AfterExtract(rq, ok, raw, TimeOfRequest(r))]
  /\ UNCHANGED <<pureVars, docsDir, kbFile, backups, edits, everPersisted>>

AfterEmbed_BatchFromStart(rq, ok, now) ==
  IF ~ok THEN Throw([rq EXCEPT !.failures = @ + 1], "embed")
  ELSE LET from == Len(rq.embeddings)
           to == IF from + BATCH < Len(rq.chunks) THEN from + BATCH ELSE Len(rq.chunks)
           batch == [k \in 1..(to - from) |-> rq.chunks[k].text]
           embs == rq.embeddings \o embedBatch(batch)
       IN  IF to >= Len(rq.chunks) THEN ToSign([rq EXCEPT !.embeddings = embs], now)
           ELSE [rq EXCEPT !.embeddings = embs]

\* One batch of the embedding loop: embedBatch throws or gives the vectors.
AfterEmbed(rq, ok, now) ==
  IF ~ok THEN Throw([rq EXCEPT !.failures = @ + 1], "embed")
  ELSE LET from == Len(rq.embeddings)
           to == IF from + BATCH < Len(rq.chunks) THEN from + BATCH ELSE Len(rq.chunks)
           batch == [k \in 1..(to - from) |-> rq.chunks[from + k].text]
           embs == rq.embeddings \o embedBatch(batch)
       IN  IF to >= Len(rq.chunks) THEN ToSign([rq EXCEPT !.embeddings = embs], now)
           ELSE [rq EXCEPT !.embeddings = embs]

BuildEmbed(r) ==
  /\ req[r].pc = "b_embed"
  /\ \E ok \in BOOLEAN :
       req' = [req EXCEPT ![r] = AfterEmbed(req[r], ok, TimeOfRequest(r))]
  /\ UNCHANGED <<pureVars, docsDir, kbFile, backups, edits, everPersisted>>

\* The index assembled once the second listing is known.
AssembleKb(rq, sig) ==
  [kind |-> "index",
   meta |-> [createdAt |-> rq.createdAt, chunkSizeChars |-> rq.chunkSizeChars,
             overlapChars |-> rq.overlapChars, docCount |-> Len(rq.docs),
             chunkCount |-> Len(rq.chunks), docsSignature |-> sig],
   chunks |-> [k \in 1..Len(rq.chunks) |->
                 [id |-> rq.chunks[k].id, doc |-> rq.chunks[k].doc,
                  chunkIndex |-> rq.chunks[k].chunkIndex, text |-> rq.chunks[k].text,
                  embedding |-> rq.embeddings[k]]]]

\* docSignature(await listDocs()), then fs.existsSync(KB_PATH) and the stamp.
BuildSign(r) ==
  /\ req[r].pc = "b_sign"
  /\ LET rq == req[r]
         kb == AssembleKb(rq, docSignature(listDocs(docsDir)))
     IN  req' = [req EXCEPT ![r] =
           IF kbFile # NoFile
           THEN [rq EXCEPT !.newKb = kb, !.stamp = TimeOfRequest(r), !.pc = "b_backup"]
           ELSE [rq EXCEPT !.newKb = kb, !.pc = "b_write"]]
  /\ UNCHANGED <<pureVars, docsDir, kbFile, backups, edits, everPersisted>>

\* fsp.copyFile(KB_PATH, backup path)
BuildBackup(r) ==
  /\ req[r].pc = "b_backup"
  /\ backups' = [st \in DOMAIN backups \cup {req[r].stamp} |->
                   IF st = req[r].stamp THEN kbFile ELSE backups[st]]
  /\ req' = [req EXCEPT ![r] = [@ EXCEPT !.wrote = TRUE, !.pc = "b_write"]]
  /\ UNCHANGED <<pureVars, docsDir, kbFile, edits, everPersisted>>

\* fsp.writeFile opens KB_PATH, which truncates it.
BuildWrite(r) ==
  /\ req[r].pc = "b_write"
  /\ kbFile' = Truncated
  /\ req' = [req EXCEPT ![r] = [@ EXCEPT !.wrote = TRUE, !.pc = "b_flush"]]
  /\ UNCHANGED <<pureVars, docsDir, backups, edits, everPersisted>>

\* fsp.writeFile writes its data from offset 0 and buildKB returns.  Over
\* data another writeFile wrote since the truncation the result is either
\* this index or a mix of the two.
BuildFlush(r) ==
  /\ req[r].pc = "b_flush"
  /\ \E content \in (IF kbFile \in {Truncated, req[r].newKb} THEN {req[r].newKb}
                     ELSE {req[r].newKb, Garbled}) :
       /\ kbFile' = content
       /\ everPersisted' = IF content.kind = "index" THEN everPersisted \cup {content}
                           ELSE everPersisted
       /\ req' = [req EXCEPT ![r] =
            IF req[r].kind = "build"
            THEN Respond([req[r] EXCEPT !.builds = @ + 1], 200, "none")
            ELSE [@ EXCEPT !.builds = @ + 1, !.pc = "c_reload"]]
  /\ UNCHANGED <<pureVars, docsDir, backups, edits>>

\* ---- POST /api/chat after await buildKB() ----
\* kb = loadKB()
ChatReload(r) ==
  /\ req[r].pc = "c_reload"
  /\ req' = [req EXCEPT ![r] =
       IF ~Parses(kbFile) THEN Throw([@ EXCEPT !.fileAtReturn = kbFile], "parse")
       ELSE [@ EXCEPT !.kb = kbFile, !.fileAtReturn = kbFile, !.reloaded = TRUE,
                      !.pc = "c_retrieve"]]
  /\ UNCHANGED <<pureVars, docsDir, kbFile, backups, edits, everPersisted>>

\* retrieve(kb, message) and answerWithContexts, which touch nothing but the
\* request: the query is embedded, the chunks ranked and picked, the answer
\* generated and sent.  Either provider call may throw.
ChatRetrieve(r) ==
  /\ req[r].pc = "c_retrieve"
  /\ \E embedded \in BOOLEAN, answered \in BOOLEAN :
       req' = [req EXCEPT ![r] =
         IF ~embedded THEN Throw(@, "embed")
         ELSE LET got == [@ EXCEPT !.contexts = retrieve(req[r].kb, EmbeddingOf(req[r].message),
                                                       TOP_K, PER_DOC_CAP),
                                  !.retrieved = TRUE, !.retrievedFrom = req[r].kb]
              IN  IF ~answered THEN Throw(got, "answer")
                  ELSE Respond(got, 200, "none")]
  /\ UNCHANGED <<pureVars, docsDir, kbFile, backups, edits, everPersisted>>

Next ==
  \/ \E n \in EditedNames, t \in EditedTexts : PutDoc(n, t)
  \/ \E n \in EditedNames : RemoveDoc(n)
  \/ \E r \in Procs : StartBuild(r)
  \/ \E r \in Procs, m \in Messages : StartChat(r, m)
  \/ \E r \in Procs : ChatStale(r)
  \/ \E r \in Procs : BuildList(r)
  \/ \E r \in Procs : BuildExtract(r)
  \/ \E r \in Procs : BuildEmbed(r)
  \/ \E r \in Procs : BuildSign(r)
  \/ \E r \in Procs : BuildBackup(r)
  \/ \E r \in Procs : BuildWrite(r)
  \/ \E r \in Procs : BuildFlush(r)
  \/ \E r \in Procs : ChatReload(r)
  \/ \E r \in Procs : ChatRetrieve(r)

Spec == InitServer /\ [][Next]_vars

\* ---- claims about the server ----
\* A chat request that has loaded the index file and decided whether to build.
Decided(rq) == rq.kind = "chat" /\ rq.loaded /\ rq.pc # "c_stale"

\* The staleness condition read to the letter: no file, no docsSignature
\* field, or a docsSignature other than the signature of the listing.
StaleAsClaimed(rq) ==
  \/ rq.seenFile = NoFile
  \/ rq.seenFile.meta.docsSignature = Undefined
  \/ rq.seenSig # rq.seenFile.meta.docsSignature

\* The same, with an empty docsSignature counted as none.
StaleOrEmptySignature(rq) ==
  \/ rq.seenFile = NoFile
  \/ Falsy(rq.seenFile.meta.docsSignature)
  \/ rq.seenSig # rq.seenFile.meta.docsSignature

\* What a chat request does when its index is stale, and when it is not.
BuildsThenReloads(rq) ==
  /\ rq.buildCalls = 1
  /\ (rq.pc = "c_retrieve" \/ rq.retrieved) => rq.builds = 1 /\ rq.reloaded
  /\ rq.retrieved => rq.retrievedFrom = rq.fileAtReturn

NeitherBuildsNorWrites(rq) == rq.buildCalls = 0 /\ rq.builds = 0 /\ ~rq.wrote

\* C3: a chat request with a non-empty message builds and reloads before
\* retrieve when the index file is absent, has no docsSignature or has one
\* that differs from the signature of the listing; when the index exists and
\* its signature matches, it runs no build and writes neither the index file
\* nor a backup.
C3_StaleRebuildsFreshDoesNot ==
  \A r \in Procs :
    Decided(req[r]) =>
      IF StaleAsClaimed(req[r]) THEN BuildsThenReloads(req[r])
      ELSE NeitherBuildsNorWrites(req[r])

\* What kbIsStale decides: the statement above with an empty docsSignature,
\* the signature of an empty listing, counted as no docsSignature.
RebuildsAlsoOnEmptySignature ==
  \A r \in Procs :
    Decided(req[r]) =>
      IF StaleOrEmptySignature(req[r]) THEN BuildsThenReloads(req[r])
      ELSE NeitherBuildsNorWrites(req[r])

\* C4: every index KB_PATH has ever held is still there, as the current index
\* file or as the content of a backup file.
C4_NoIndexLost ==
  \A k \in everPersisted :
    kbFile = k \/ \E st \in DOMAIN backups : backups[st] = k

\* C5: a build in which an extraction or an embedding call failed ends with an
\* error and has written neither the index file nor a backup.
C5_FailedBuildWritesNothing ==
  \A r \in Procs :
    req[r].failures > 0 =>
      /\ req[r].pc = "done" /\ req[r].status = 500
      /\ req[r].builds = 0 /\ ~req[r].wrote

\* One build failed in extraction and one in embedding; the index file still
\* holds what it held before and there is no backup.
C5_Witness ==
  /\ \E r, q \in Procs :
       /\ req[r].failures > 0 /\ req[r].error = "extract"
       /\ req[q].failures > 0 /\ req[q].error = "embed"
  /\ kbFile = ForeignKb
  /\ backups = <<>>

\* A build that ended with no eligible document: nothing listed, or nothing
\* left after extraction and the minimum-length filter.
NoEligibleDocument(rq) ==
  /\ rq.listed
  /\ rq.fileCount = 0 \/ (rq.extracted /\ rq.docCount = 0)

\* C6: a build with no eligible document fails with the empty-corpus error and
\* writes neither the index file nor a backup.
C6_EmptyCorpusFails ==
  \A r \in Procs :
    req[r].pc = "done" /\ NoEligibleDocument(req[r]) =>
      /\ req[r].status = 500 /\ req[r].error = "empty"
      /\ ~req[r].wrote

\* What kbIsStale returns for the index file and the documents as they are now.
ReportedFresh(file) ==
  /\ Parses(file)
  /\ ~kbLacksSignature(file)
  /\ ~SignatureDiffers(docSignature(listDocs(docsDir)), file)

\* The documents a build would keep if it read the directory as it is now.
RECURSIVE KeptDocs(_)
KeptDocs(files) ==
  IF files = <<>> THEN <<>>
  ELSE LET cleaned == Cleaned(docsDir[Head(files).name].text)
       IN  (IF Len(cleaned) < MinDocChars THEN <<>>
            ELSE <<[name |-> Head(files).name, text |-> cleaned]>>) \o KeptDocs(Tail(files))

\* The document and the text of each chunk.
DocTextOf(chunks) == [k \in 1..Len(chunks) |-> [doc |-> chunks[k].doc, text |-> chunks[k].text]]

\* C12: an index that the staleness check reports fresh for the documents now
\* on disk holds the text of these documents and of no other: a change made
\* to the documents while the build ran does not go unnoticed.
C12_FreshIndexHoldsCurrentText ==
  ReportedFresh(kbFile) =>
    DocTextOf(kbFile.chunks)
      = DocTextOf(AllChunks(KeptDocs(listDocs(docsDir)),
                            kbFile.meta.chunkSizeChars, kbFile.meta.overlapChars))

\* What a request may find at KB_PATH without corruption: no file, or one
\* complete index.
AbsentOrComplete(file) == file.kind \in {"none", "index"}

\* C13: whatever builds overlap, every loadKB of a request finds KB_PATH
\* absent or holding one complete index, and once two builds have both
\* finished KB_PATH holds a complete index written by a build.
C13_NoCorruptIndex ==
  /\ \A r \in Procs :
       /\ req[r].error # "message" => AbsentOrComplete(req[r].seenFile)
       /\ AbsentOrComplete(req[r].fileAtReturn)
  /\ (\A r \in Procs : req[r].pc = "done" /\ req[r].builds = 1) =>
       kbFile.kind = "index" /\ kbFile # ForeignKb

\* ----------------------------------------------------------------------
\* Specification of the embedding loop and the assembly of the index
\* ----------------------------------------------------------------------
\* Documents are scaled down: with chunks of two characters a text of 2n
\* characters in one paragraph is cut into n chunks, whose texts and
\* embeddings repeat with period three.
EmbedChunkSize == 2
EmbedOverlap == 1

CycleText(n) ==
  [i \in 1..n |-> IF i % 3 = 1 THEN "a" ELSE IF i % 3 = 2 THEN "b" ELSE "c"]

\* The kept documents of a build: a.md with n1 chunks, and b.md with n2 if any.
EmbedDocs(n1, n2) ==
  <<[name |-> NameA, text |-> CycleText(EmbedChunkSize * n1)]>>
  \o (IF n2 = 0 THEN <<>> ELSE <<[name |-> NameB, text |-> CycleText(EmbedChunkSize * n2)]>>)

\* buildKB at the head of the embedding loop, lines 157-168 done.
AtEmbedLoop(docs) ==
  [NoRequest EXCEPT !.kind = "build", !.pc = "b_embed", !.listed = TRUE,
                    !.extracted = TRUE, !.buildCalls = 1,
                    !.docs = docs, !.docCount = Len(docs),
                    !.chunkSizeChars = EmbedChunkSize, !.overlapChars = EmbedOverlap,
                    !.chunks = AllChunks(docs, EmbedChunkSize, EmbedOverlap)]

InitEmbed ==
  /\ nrm = Idle /\ chk = Idle /\ sgn = Idle /\ ret = Idle /\ mrg = Idle /\ ServerOff
  /\ emb \in {[phase |-> "build", rq |-> AtEmbedLoop(EmbedDocs(pr[1], pr[2])),
               docs |-> EmbedDocs(pr[1], pr[2]), kb |-> NoFile] :
            pr \in {ns \in (1..MaxEmbedChunks) \X {0, 1, BATCH + 1} :
                      ns[1] + ns[2] <= MaxEmbedChunks}}

\* One batch is embedded, or the provider fails.
EmbedStep ==
  /\ emb.phase = "build"
  /\ emb.rq.pc = "b_embed"
  /\ \E ok \in BOOLEAN : emb' = [emb EXCEPT !.rq = AfterEmbed(emb.rq, ok, 1)]
  /\ UNCHANGED <<nrm, chk, sgn, ret, mrg, srvVars>>

\* The index is assembled and handed to writeFile.
EmbedAssemble ==
  /\ emb.phase = "build"
  /\ emb.rq.pc = "b_sign"
  /\ emb' = [emb EXCEPT !.phase = "done",
                        !.kb = AssembleKb(emb.rq, docSignature(listDocs(docsDir)))]
  /\ UNCHANGED <<nrm, chk, sgn, ret, mrg, srvVars>>

NextEmbed == EmbedStep \/ EmbedAssemble

SpecEmbed == InitEmbed /\ [][NextEmbed]_vars

\* C14: in the index a build hands to writeFile, chunk i carries the embedding
\* of its own text, its id is the document name, "::" and its chunk index,
\* the chunks come document after document in chunk order, and
\* meta.chunkCount is their number.
C14_EmbeddingsAligned ==
  emb.phase = "done" =>
    LET kb == emb.kb
        n == Len(kb.chunks)
    IN  /\ kb.meta.chunkCount = n
        /\ \A i \in 1..n :
             /\ kb.chunks[i].embedding = EmbeddingOf(kb.chunks[i].text)
             /\ kb.chunks[i].id
                  = kb.chunks[i].doc \o <<":", ":">> \o Decimal(kb.chunks[i].chunkIndex)
        /\ \A i \in 1..(n - 1) :
             \/ /\ kb.chunks[i].doc = kb.chunks[i + 1].doc
                /\ kb.chunks[i + 1].chunkIndex = kb.chunks[i].chunkIndex + 1
             \/ /\ kb.chunks[i].doc = NameA /\ kb.chunks[i + 1].doc = NameB
                /\ kb.chunks[i + 1].chunkIndex = 0
        /\ n > 0 => kb.chunks[1].doc = emb.docs[1].name /\ kb.chunks[1].chunkIndex = 0
        /\ \A d \in 1..Len(emb.docs) :
             LET ch == chunkByParagraphs(emb.docs[d].text, EmbedChunkSize, EmbedOverlap)
                 own == SelectSeq(kb.chunks, LAMBDA c : c.doc = emb.docs[d].name)
             IN  [k \in 1..Len(own) |-> own[k].text] = ch

\* An index of two documents whose chunks filled two batches and part of a
\* third.
C14_Witness ==
  /\ emb.phase = "done"
  /\ Len(emb.docs) = 2
  /\ Len(emb.kb.chunks) > 2 * BATCH
  /\ Len(emb.kb.chunks) % BATCH # 0

\* ----------------------------------------------------------------------
\* The question/answer merge tool (tools/merge_qa_into_kb.js)
\* ----------------------------------------------------------------------
\* Letters with a case or an accent are written "A", "a_acute" and "A_acute"
\* (a with acute accent in one code point), "i_acute", and "comb_acute" for
\* the combining acute accent U+0301.

\* String.prototype.toLowerCase, character by character
LowerChar(c) ==
  CASE c = "A" -> "a"
    [] c = "A_acute" -> "a_acute"
    [] c = "X" -> "x"
    [] OTHER -> c

RECURSIVE ToLowerCase(_)
ToLowerCase(s) ==
  IF s = <<>> THEN <<>> ELSE <<LowerChar(Head(s))>> \o ToLowerCase(Tail(s))

\* String.prototype.normalize("NFD"): a letter with an accent becomes the
\* letter followed by the combining accent.
RECURSIVE NormalizeNFD(_)
NormalizeNFD(s) ==
  IF s = <<>> THEN <<>>
  ELSE (CASE Head(s) = "a_acute" -> <<"a", "comb_acute">>
          [] Head(s) = "A_acute" -> <<"A", "comb_acute">>
          [] Head(s) = "i_acute" -> <<"i", "comb_acute">>
          [] OTHER -> <<Head(s)>>) \o NormalizeNFD(Tail(s))

\* norm: trim, lower case, decompose, strip the combining marks with
\* .replace(/[\u0300-\u036f]/g, "")
norm(s) == SelectSeq(NormalizeNFD(ToLowerCase(Trim(s))), LAMBDA c : c # "comb_acute")

\* The characters . does not match and at which $ matches with the m flag.
LineEnds == {LF, CR}

\* s.includes(w)
Includes(s, w) == \E i \in 0..(Len(s) - Len(w)) : SubSeq(s, i + 1, i + Len(w)) = w

\* The match of \s*Q:\s*(.+)$ tried at the start of s: its group 1, or no
\* match.  \s* gives back blanks until (.+) has a character to take.
MatchAtLineStart(s) ==
  LET a == DropFirst(s, SpaceRun(s))
      rest == DropFirst(a, 2)
      w == SpaceRun(rest)
      K == {k \in 0..w : k + 1 <= Len(rest) /\ rest[k + 1] \notin LineEnds}
  IN  IF SubSeq(a, 1, 2) # <<"Q", ":">> \/ K = {} THEN [found |-> FALSE, group |-> <<>>]
      ELSE LET k == CHOOSE x \in K : \A y \in K : y <= x
               from == DropFirst(rest, k)
           IN  [found |-> TRUE, group |-> SubSeq(from, 1, RunLen(from, LineEnds, FALSE))]

\* String(t).match(/^\s*Q:\s*(.+)$/m): the leftmost line start with a match.
RECURSIVE MatchQuestion(_)
MatchQuestion(s) ==
  LET m == MatchAtLineStart(s)
      line == RunLen(s, LineEnds, FALSE)
  IN  IF m.found THEN m
      ELSE IF line >= Len(s) THEN [found |-> FALSE, group |-> <<>>]
      ELSE MatchQuestion(DropFirst(s, line + 1))

\* detectContainer: the blocks of an array or of an object with a blocks
\* array, and no block for anything else.
detectContainer(kb) ==
  IF kb.rootType \in {"array", "object"} THEN [rootType |-> kb.rootType, blocks |-> kb.blocks]
  ELSE [rootType |-> "object", blocks |-> <<>>]

\* container.setBlocks(newBlocks)
setBlocks(container, newBlocks) == [rootType |-> container.rootType, blocks |-> newBlocks]

\* The loop that fills existingKeys from the text of the blocks.
RECURSIVE ExistingKeys(_)
ExistingKeys(blocks) ==
  IF blocks = <<>> THEN {}
  ELSE LET m == MatchQuestion(Head(blocks).text)
       IN  (IF m.found /\ m.group # <<>> THEN {norm(m.group)} ELSE {})
           \cup ExistingKeys(Tail(blocks))

\* path.basename of a path written with / or \
Basename(fp) ==
  LET seps == {i \in 1..Len(fp) : fp[i] \in {"/", "\\"}}
  IN  IF seps = {} THEN fp ELSE DropFirst(fp, CHOOSE i \in seps : \A j \in seps : j <= i)

\* base.replace(/\.json$/i, "")
StripJson(base) ==
  IF Len(base) >= 5 /\ ToLowerCase(SubSeq(base, Len(base) - 4, Len(base))) = <<".", "j", "s", "o", "n">>
  THEN SubSeq(base, 1, Len(base) - 5)
  ELSE base

\* topicFromFilename: the topic that goes into the block ids
topicFromFilename(fp) ==
  LET base == ToLowerCase(Basename(fp))
      estrategia == <<"e", "s", "t", "r", "a", "t", "e", "g", "i", "a">>
      universidades == <<"u", "n", "i", "v", "e", "r", "s", "i", "d", "a", "d", "e", "s">>
      futuro == <<"f", "u", "t", "u", "r", "o">>
      autores == <<"a", "u", "t", "o", "r", "e", "s">>
      directrices == <<"d", "i", "r", "e", "c", "t", "r", "i", "c", "e", "s">>
      paises == <<"p", "a", "i", "s", "e", "s">>
      paisesAccent == <<"p", "a", "i_acute", "s", "e", "s">>
  IN  IF Includes(base, estrategia) THEN estrategia \o <<"_", "e", "s">>
      ELSE IF Includes(base, universidades) \/ Includes(base, futuro)
           THEN <<"d", "e", "b", "a", "t", "e", "_">> \o universidades \o <<"_">> \o futuro
      ELSE IF Includes(base, autores)
           THEN autores \o <<"_", "v", "s", "_", "o", "b", "j", "e", "t", "i", "v", "o", "s">>
      ELSE IF Includes(base, directrices) \/ Includes(base, paises)
              \/ Includes(base, paisesAccent)
           THEN directrices \o <<"_">> \o paises
      ELSE StripJson(base)

\* String(n).padStart(3, "0")
PadStart3(d) == IF Len(d) >= 3 THEN d ELSE Rep("0", 3 - Len(d)) \o d

\* parts.join(sep)
RECURSIVE JoinWith(_, _)
JoinWith(parts, sep) ==
  IF parts = <<>> THEN <<>>
  ELSE IF Len(parts) = 1 THEN parts[1]
  ELSE parts[1] \o sep \o JoinWith(Tail(parts), sep)

\* The text of a block: question, variants and tags, then the answer.
BlockText(qa) ==
  Trim(<<"Q", ":", SP>> \o qa.question \o <<LF>>
       \o (IF qa.variants # <<>>
           THEN <<LF, "V", "a", "r", "i", "a", "n", "t", "e", "s", ":", SP>>
                \o JoinWith(qa.variants, <<SP, "|", SP>>)
           ELSE <<>>)
       \o <<LF>>
       \o (IF qa.tags # <<>>
           THEN <<LF, "T", "a", "g", "s", ":", SP>> \o JoinWith(qa.tags, <<",", SP>>)
           ELSE <<>>)
       \o <<LF, LF, "A", ":", SP>> \o qa.answer)

\* `qa-${topicInfo.topic}-${String(n).padStart(3, "0")}`
BlockId(topic, n) == <<"q", "a", "-">> \o topic \o <<"-">> \o PadStart3(Decimal(n))

\* qaToBlock with the key names of a block that has none of its own
qaToBlock(qa, topic, n) ==
  [id |-> BlockId(topic, n), type |-> "qa", text |-> BlockText(qa), tags |-> qa.tags,
   qa_meta |-> [topic |-> topic, question |-> qa.question]]

\* The loop over the records of one file.  st holds existingKeys, newBlocks
\* and added.
RECURSIVE MergeRecords(_, _, _)
MergeRecords(qaList, topic, st) ==
  IF qaList = <<>> THEN st
  ELSE LET qa == Head(qaList)
           qkey == norm(qa.question)
       IN  IF qkey = <<>> \/ qkey \in st.keys THEN MergeRecords(Tail(qaList), topic, st)
           ELSE MergeRecords(Tail(qaList), topic,
                  [keys |-> st.keys \cup {qkey},
                   newBlocks |-> Append(st.newBlocks, qaToBlock(qa, topic, st.added + 1)),
                   added |-> st.added + 1])

\* The loop over the files; a file that does not hold a list is passed over.
RECURSIVE MergeFiles(_, _)
MergeFiles(files, st) ==
  IF files = <<>> THEN st
  ELSE MergeFiles(Tail(files),
         IF ~Head(files).isArray THEN st
         ELSE MergeRecords(Head(files).qaList, topicFromFilename(Head(files).path), st))

\* main from readJson(kbPath) to the blocks to write, with
\* let newBlocks = mode === "replace" ? [] : [...container.blocks]
RunMerge(mode, kb, files) ==
  LET container == detectContainer(kb)
  IN  MergeFiles(files, [keys |-> ExistingKeys(container.blocks),
                         newBlocks |-> IF mode = "replace" THEN <<>> ELSE container.blocks,
                         added |-> 0])

\* ---- inputs ----
\* Questions: blank, plain, the same with capital and accent, another one,
\* and one of two lines.
QuestionPool == {<<SP>>, <<"a">>, <<"A_acute">>, <<"b">>, <<"a", LF, "b">>}

\* The files of a run: X.json, or X.json and y.json, with at most MaxRecords
\* records in all, or an X.json that parses to something other than a list.
MergeInputs ==
  LET pathX == <<"X", ".", "j", "s", "o", "n">>
      pathY == <<"y", ".", "j", "s", "o", "n">>
      record(q) == [question |-> q, answer |-> <<"r">>, variants |-> <<>>, tags |-> <<>>]
      lists(n) == UNION {[1..k -> {record(q) : q \in QuestionPool}] : k \in 0..n}
      file(path, list) == [path |-> path, isArray |-> TRUE, qaList |-> list]
      notAList(path) == [path |-> path, isArray |-> FALSE, qaList |-> <<>>]
  IN  {<<file(pathX, l)>> : l \in lists(MaxRecords)}
      \cup {<<file(pathX, pr[1]), file(pathY, pr[2])>> :
              pr \in {ls \in lists(MaxRecords) \X lists(MaxRecords) :
                        Len(ls[1]) + Len(ls[2]) <= MaxRecords}}
      \cup {<<notAList(pathX), file(pathY, l)>> : l \in lists(1)}

InitMerge ==
  /\ nrm = Idle /\ chk = Idle /\ sgn = Idle /\ ret = Idle /\ emb = Idle /\ ServerOff
  /\ mrg \in {[phase |-> "ready", kb |-> kb, backup |-> kb, mode |-> "none",
               files |-> <<>>, added |-> 0, runs |-> 0] :
            kb \in {[rootType |-> t, blocks |-> <<>>] : t \in {"array", "object", "other"}}}

\* One run of the tool: the index is read, the records merged, the file
\* copied to the backup path and the new index written.
Merge(mode, files) ==
  /\ mrg.phase \in {"ready", "ran"}
  /\ mrg.runs < MaxMergeRuns
  /\ LET res == RunMerge(mode, mrg.kb, files)
     IN  mrg' = [phase |-> "ran",
                 kb |-> setBlocks(detectContainer(mrg.kb), res.newBlocks),
                 backup |-> mrg.kb, mode |-> mode, files |-> files,
                 added |-> res.added, runs |-> mrg.runs + 1]
  /\ UNCHANGED <<nrm, chk, sgn, ret, emb, srvVars>>

NextMerge == \E mode \in {"append", "replace"}, files \in MergeInputs : Merge(mode, files)

SpecMerge == InitMerge /\ [][NextMerge]_vars

\* ---- claims about the merge tool ----
\* The records of the files of a run, in the order the tool reads them.
RECURSIVE RecordsOf(_)
RecordsOf(files) ==
  IF files = <<>> THEN <<>>
  ELSE (IF Head(files).isArray THEN Head(files).qaList ELSE <<>>) \o RecordsOf(Tail(files))

\* The normalized questions of a sequence of blocks.
KeysOfBlocks(blocks) == {norm(blocks[i].qa_meta.question) : i \in 1..Len(blocks)}

\* The questions of the records that are not skipped, when a record is skipped
\* exactly when its normalized question is empty or in the set of keys, and
\* every record kept adds its own.
RECURSIVE KeptQuestions(_, _)
KeptQuestions(records, keys) ==
  IF records = <<>> THEN <<>>
  ELSE LET qkey == norm(Head(records).question)
       IN  IF qkey = <<>> \/ qkey \in keys THEN KeptQuestions(Tail(records), keys)
           ELSE <<Head(records).question>> \o KeptQuestions(Tail(records), keys \cup {qkey})

QuestionsOf(blocks) == [i \in 1..Len(blocks) |-> blocks[i].qa_meta.question]

\* C11: after a run in append mode the index holds the blocks it held before
\* followed by one block for each record whose normalized question is not
\* empty and was not yet in the index or added earlier in the run, so that
\* the block count grows by the number of records minus the skipped ones.
C11_AppendSkipsExactlyDuplicates ==
  mrg.phase = "ran" /\ mrg.mode = "append" =>
    LET before == detectContainer(mrg.backup).blocks
        kept == KeptQuestions(RecordsOf(mrg.files), KeysOfBlocks(before))
    IN  /\ Len(mrg.kb.blocks) = Len(before) + Len(kept)
        /\ SubSeq(mrg.kb.blocks, 1, Len(before)) = before
        /\ QuestionsOf(DropFirst(mrg.kb.blocks, Len(before))) = kept

\* The normalized questions of the records of a run, the empty one left out.
KeysOfRecords(records) == {norm(records[i].question) : i \in 1..Len(records)} \ {<<>>}

\* C15: after a run in replace mode the index holds exactly one block for
\* each distinct non-empty normalized question of the input files, whatever
\* it held before; so the same run made twice leaves what one run leaves.
C15_ReplaceHoldsExactlyTheInputs ==
  mrg.phase = "ran" /\ mrg.mode = "replace" =>
    /\ KeysOfBlocks(mrg.kb.blocks) = KeysOfRecords(RecordsOf(mrg.files))
    /\ Len(mrg.kb.blocks) = Cardinality(KeysOfRecords(RecordsOf(mrg.files)))

\* C16: after any sequence of runs the ids of the blocks of the index are
\* pairwise distinct.
C16_BlockIdsDistinct ==
  \A i, j \in 1..Len(mrg.kb.blocks) :
    i # j => mrg.kb.blocks[i].id # mrg.kb.blocks[j].id

====
